---- MODULE Spec2Model ----
(***************************************************************************)
(* A model of edgerouter-backup.py: the backup run (run_backup), the       *)
(* version-control step (git_commit_and_push), the retention pass          *)
(* (cleanup_old_backups) and the command dispatch of main.                 *)
(*                                                                         *)
(* The collaborators whose outcome the program cannot decide (free disk    *)
(* space, the SSH connection, the remote command and transfer, git, the    *)
(* notifier) are modelled by a nondeterministic choice among the outcomes  *)
(* the code distinguishes in its except clauses.  The configuration is an  *)
(* input: each key is read once per command, so the value is drawn where   *)
(* the code reads it.                                                      *)
(***************************************************************************)
EXTENDS Integers, Sequences, FiniteSets, TLC

\* ------------------------------------------------------------------ bounds
\* Calendar days are 0..MaxDay.
MaxDay == 2
\* Clock resolution: a day has TicksPerDay instants, instant 0 is midnight.
TicksPerDay == 2
\* retention_days ranges over 0..MaxRetention.
MaxRetention == 2
\* Distinct non-empty configuration contents the router can serve.
MaxContent == 2
\* Commands executed in one behaviour.
MaxRuns == 2
\* The last instant at which a command of Spec reads the clock.
MaxRunNow == 2
\* Files present in the tree handed to the retention pass in PruneSpec.
MaxPruneFiles == 3

Days == 0..MaxDay
MaxNow == (MaxDay + 1) * TicksPerDay - 1
Nows == 0..MaxNow
Contents == 1..MaxContent

\* ------------------------------------------------------- the stored files
\* The declared backup formats (config backup.formats, and the two
\* extensions named by the retention glob).
Formats == {"tar.gz", "cfg"}

\* The extensions a file under <root>/<YYYY>/<MM>/ may carry.  The third is
\* the text of the retention glob's suffix taken literally.
Exts == Formats \cup {"{tar.gz,cfg}"}

\* A file <root>/<YYYY>/<MM>/backup-<stem>.<ext>.  When parsable, <stem> is
\* the ISO date of day `date` (and YYYY/MM are that day's); otherwise the
\* stem is no date and `date` is unused.
FileNames ==
    [date : Days, ext : Exts, parsable : {TRUE}]
        \cup [date : {0}, ext : Exts, parsable : {FALSE}]

\* A tree maps each file name to its content, 0 when the file is absent.
EmptyTree == [f \in FileNames |-> 0]
Present(t) == {f \in FileNames : t[f] # 0}

\* datetime.now() split as save_to_repo and cleanup_old_backups use it.
Today(n) == n \div TicksPerDay

\* A faulty variant of DestFile: the name carries the instant, not the day.
DestFile_ByInstant(n, fmt) == [date |-> n, ext |-> fmt, parsable |-> TRUE]

\* dest_file of save_to_repo: date_path / f"backup-{date_str}.{fmt}".
DestFile(n, fmt) == [date |-> Today(n), ext |-> fmt, parsable |-> TRUE]

\* ------------------------------------------------------ cleanup_old_backups
\* month_dir.glob('backup-*.{tar.gz,cfg}'): pathlib's glob has no brace
\* expansion, so the pattern matches only names that end in the literal text
\* ".{tar.gz,cfg}".
GlobMatches(f) == f.ext = "{tar.gz,cfg}"

\* datetime.strptime(date_str, '%Y-%m-%d'): midnight of the embedded date.
FileDate(f) == f.date * TicksPerDay

\* A faulty variant of CutoffDate: the retention period is not subtracted.
CutoffDate_NoRetention(n, days) == n

\* cutoff_date = datetime.now() - timedelta(days=retention_days): it keeps
\* the time of day of now.
CutoffDate(n, days) == n - days * TicksPerDay

\* The files the scan reaches with a parsed date before the cutoff.
Eligible(t, n, days) ==
    {f \in Present(t) : GlobMatches(f) /\ f.parsable /\ FileDate(f) < CutoffDate(n, days)}

\* A faulty variant of cleanup_old_backups: test mode counts nothing.
cleanup_old_backups_DryCountsNothing(t, n, days, tm, fails) ==
    LET elig == Eligible(t, n, days)
        removed == IF tm THEN {} ELSE elig \ fails
    IN  [tree |-> [f \in FileNames |-> IF f \in removed THEN 0 ELSE t[f]],
         count |-> Cardinality(removed)]

\* A faulty variant of cleanup_old_backups: without the inner try/except the
\* first failing unlink ends the scan, and the outer except returns 0.
cleanup_old_backups_AbortOnFailure(t, n, days, tm, fails) ==
    LET elig == Eligible(t, n, days)
        aborted == ~tm /\ elig \cap fails # {}
        removed == IF tm \/ aborted THEN {} ELSE elig
        counted == IF aborted THEN {} ELSE elig
    IN  [tree |-> [f \in FileNames |-> IF f \in removed THEN 0 ELSE t[f]],
         count |-> Cardinality(counted)]

\* cleanup_old_backups(config, test_mode) on tree t at instant n with
\* retention_days = days; `fails` are the files whose unlink() raises.
\* A file whose name does not parse or whose unlink raises is logged and
\* skipped by the inner except; it is counted only after a successful unlink
\* (or, in test mode, without any unlink).
cleanup_old_backups(t, n, days, tm, fails) ==
    LET elig == Eligible(t, n, days)
        removed == IF tm THEN {} ELSE elig \ fails
        counted == IF tm THEN elig ELSE elig \ fails
    IN  [tree |-> [f \in FileNames |-> IF f \in removed THEN 0 ELSE t[f]],
         count |-> Cardinality(counted)]

\* ------------------------------------------------------------------- state
VARIABLES
    now,          \* the clock, in ticks
    rootExists,   \* the repository root directory exists
    tree,         \* the working tree under the repository root
    index,        \* git's index (the staged tree)
    head,         \* the tree of the last commit
    hasGit,       \* <root>/.git exists
    hasOrigin,    \* the repository has a remote named origin
    commits,      \* the commit history: the messages, oldest first
    tmpOnDisk,    \* temporary directories the command made and has not removed
    runs,         \* commands started so far
    cmd,          \* args.command of the running process, "none" when idle
    pc,           \* the position of the running command
    test_mode,    \* run_backup's test_mode
    ssh,          \* run_backup's local ssh: TRUE when it holds a client
    session,      \* the transport session: "none", "open", "closed"
    temp_dir,     \* run_backup's local temp_dir: TRUE when it is not None
    backup_files, \* run_backup's local backup_files: format -> artifact
    changed,      \* run_backup's local changed
    failed,       \* the stage whose exception reached run_backup's except
    result,       \* run_backup's return value: "none", "true", "false"
    exitCode,     \* the process's exit status: "none", "0", "1"
    events,       \* what the running command did so far, in order
    notified,     \* the notification run_backup asked for: "none" or its kind
    delivery,     \* how send_macos_notification ended: "none" when not called
    checkRaised,  \* repo.is_dirty raised inside check_for_changes
    gitError,     \* the step of git_commit_and_push that raised, "none" if none
    pruneIn,      \* PruneSpec: the arguments cleanup_old_backups was called with
    pruneOut,     \* PruneSpec: the count it returned
    valIn,        \* ValidateSpec: the items validate_backup_files is called with
    valOut        \* ValidateSpec: what the call returned and logged

vars == <<now, rootExists, tree, index, head, hasGit, hasOrigin, commits,
          tmpOnDisk, runs, cmd, pc, test_mode, ssh, session, temp_dir,
          backup_files, changed, failed, result, exitCode, events, notified,
          delivery, checkRaised, gitError, pruneIn, pruneOut, valIn, valOut>>

repoVars == <<rootExists, tree, index, head, hasGit, hasOrigin, commits>>
runVars == <<cmd, pc, test_mode, ssh, session, temp_dir, backup_files, changed,
             failed, result, exitCode, events, notified, delivery, checkRaised,
             gitError>>
pruneVars == <<pruneIn, pruneOut>>
valVars == <<valIn, valOut>>
\* What only the specifications of the single functions write.
fnVars == <<pruneVars, valVars>>

NoPrune ==
    [called |-> FALSE, tree |-> EmptyTree, now |-> 0, days |-> 0,
     test_mode |-> FALSE, fails |-> {}]

\* The empty dict backup_files = {}.
NoFiles == [fmt \in {} |-> 0]

\* ------------------------------------------------------------- artifacts
\* A file in the temporary directory, as validate_backup_files looks at it:
\* os.path.exists, os.path.getsize, and whether the format's structural
\* check passes (tarfile.open for tar.gz, a 'set '/'delete ' marker for cfg).
\* content identifies the bytes, 0 for the empty file.
Artifacts ==
    [exists : {TRUE}, size : {0}, wellformed : {FALSE}, content : {0}]
        \cup [exists : {TRUE}, size : {1}, wellformed : BOOLEAN, content : Contents]

\* A path handed to validate_backup_files names an artifact or no file.
Files ==
    Artifacts \cup [exists : {FALSE}, size : {0}, wellformed : {FALSE}, content : {0}]

\* backup_files.items() iterates in insertion order; download_config inserts
\* 'tar.gz' before 'cfg'.
FormatOrder == <<"tar.gz", "cfg">>

\* A faulty variant of ValidateOne: the structural check comes before the
\* size check.
ValidateOne_StructuralFirst(fmt, a) ==
    IF ~a.exists THEN "not found"
    ELSE IF fmt = "tar.gz" /\ ~a.wellformed THEN "corrupt archive"
    ELSE IF fmt = "cfg" /\ ~a.wellformed THEN "no configuration"
    ELSE IF a.size = 0 THEN "empty"
    ELSE "ok"

\* One iteration of the loop of validate_backup_files: the reason of the
\* ValueError (or tarfile error) it raises, "ok" when it raises none.
ValidateOne(fmt, a) ==
    IF ~a.exists THEN "not found"
    ELSE IF a.size = 0 THEN "empty"
    ELSE IF fmt = "tar.gz" /\ ~a.wellformed THEN "corrupt archive"
    ELSE IF fmt = "cfg" /\ ~a.wellformed THEN "no configuration"
    ELSE "ok"

\* The loop of validate_backup_files over items, a sequence of (fmt, file)
\* pairs in iteration order: True, or False at the first item that raises,
\* whose reason the except clause logs.
ValidateItems(items) ==
    LET bad == {i \in DOMAIN items : ValidateOne(items[i].fmt, items[i].file) # "ok"}
        first == CHOOSE i \in bad : \A j \in bad : i <= j
    IN  IF bad = {} THEN [ok |-> TRUE, reason |-> "ok"]
        ELSE [ok |-> FALSE,
              reason |-> ValidateOne(items[first].fmt, items[first].file)]

\* backup_files.items() for the dict bf that download_config built.
Items(bf) ==
    LET fmts == SelectSeq(FormatOrder, LAMBDA f : f \in DOMAIN bf)
    IN  [i \in DOMAIN fmts |-> [fmt |-> fmts[i], file |-> bf[fmts[i]]]]

\* validate_backup_files(backup_files).
validate_backup_files(bf) == ValidateItems(Items(bf))

NoResult == [called |-> FALSE, ok |-> FALSE, reason |-> "none"]

\* repo.is_dirty(untracked_files=True): the index differs from HEAD, or the
\* working tree from the index (modified, deleted or untracked files).
IsDirty(t, i, h) == i # h \/ t # i

\* --------------------------------------------------------------- Init
\* The trees of the initial states: no file yet, or one backup of day 0 left
\* by an earlier day, under any of the extensions.
InitTrees ==
    {EmptyTree} \cup
        {[f \in FileNames |-> IF f = DestFile(0, e) THEN 1 ELSE 0] : e \in Exts}

InitRun ==
    /\ runs = 0
    /\ cmd = "none"
    /\ pc = "idle"
    /\ test_mode = FALSE
    /\ ssh = FALSE
    /\ session = "none"
    /\ temp_dir = FALSE
    /\ backup_files = NoFiles
    /\ changed = TRUE
    /\ failed = "none"
    /\ result = "none"
    /\ exitCode = "none"
    /\ events = <<>>
    /\ notified = "none"
    /\ delivery = "none"
    /\ checkRaised = FALSE
    /\ gitError = "none"
    /\ tmpOnDisk = 0
    /\ pruneIn = NoPrune
    /\ pruneOut = 0

\* Before the first command: a repository, when there is one, with or
\* without a remote named origin, whose last commit (if any) holds the
\* working tree.
Init ==
    /\ InitRun
    /\ now = 0
    /\ rootExists \in BOOLEAN
    /\ tree \in InitTrees
    /\ rootExists = FALSE => tree = EmptyTree
    /\ hasGit \in BOOLEAN
    /\ hasGit => rootExists
    /\ hasOrigin \in BOOLEAN
    /\ hasOrigin => hasGit
    /\ \E committed \in BOOLEAN :
          /\ committed => hasGit
          /\ head = IF committed THEN tree ELSE EmptyTree
          /\ commits = IF committed THEN <<"changed">> ELSE <<>>
    /\ index = head
    /\ valIn = <<>>
    /\ valOut = NoResult

\* ------------------------------------------------------------ the clock
\* Time passes.  The program reads the clock in save_to_repo (the date of
\* the stored file) and in cleanup_old_backups (the cutoff): the clock
\* advances before a command starts (StartCmd) and, here, between the store
\* and the retention pass of a run.
Tick ==
    /\ pc = "prune"
    /\ now < MaxRunNow
    /\ now' = now + 1
    /\ UNCHANGED <<repoVars, runVars, fnVars, tmpOnDisk, runs>>

\* --------------------------------------------------------------- main
\* main, lines 515-542 and 548: parse the command, load_config,
\* setup_logging, dispatch.  setup_logging creates the log file's directory
\* with its parents, which creates the repository root when logging.file is
\* relative to it (relLog).  The command starts at instant n.
StartCmd(c, relLog, n) ==
    /\ pc = "idle"
    /\ runs < MaxRuns
    /\ runs' = runs + 1
    /\ n >= now
    /\ now' = n
    /\ cmd' = c
    /\ test_mode' = (c = "test")
    /\ pc' = IF c = "cleanup" THEN "cleanup" ELSE "preflight"
    /\ rootExists' = (rootExists \/ relLog)
    /\ ssh' = FALSE
    /\ session' = "none"
    /\ temp_dir' = FALSE
    /\ backup_files' = NoFiles
    /\ changed' = TRUE
    /\ failed' = "none"
    /\ result' = "none"
    /\ exitCode' = "none"
    /\ events' = <<>>
    /\ notified' = "none"
    /\ delivery' = "none"
    /\ checkRaised' = FALSE
    /\ gitError' = "none"
    /\ UNCHANGED <<tree, index, head, hasGit, hasOrigin, commits, tmpOnDisk,
                   fnVars>>

\* ------------------------------------------------------------ run_backup
\* An exception raised at `stage` reaches run_backup's except clause.
Raise(stage) ==
    /\ failed' = stage
    /\ pc' = "except"

\* Lines 391-396: create the root, check_disk_space.
Preflight(enough) ==
    /\ pc = "preflight"
    /\ rootExists' = TRUE
    /\ events' = Append(events, "preflight")
    /\ IF enough
          THEN pc' = "connect" /\ UNCHANGED failed
          ELSE Raise("preflight")
    /\ UNCHANGED <<now, tree, index, head, hasGit, hasOrigin, commits,
                   tmpOnDisk, runs, cmd, test_mode, ssh, session, temp_dir,
                   backup_files, changed, result, exitCode, notified, delivery,
                   checkRaised, gitError, fnVars>>

\* A faulty variant of Connect: a failed connection is logged and the run
\* goes on.
Connect_IgnoreFailure(ok) ==
    /\ pc = "connect"
    /\ events' = Append(events, "connect")
    /\ ssh' = ok
    /\ session' = IF ok THEN "open" ELSE "none"
    /\ failed' = IF ok THEN failed ELSE "connect"
    /\ pc' = "download"
    /\ UNCHANGED <<now, repoVars, tmpOnDisk, runs, cmd, test_mode, temp_dir,
                   backup_files, changed, result, exitCode, notified, delivery,
                   checkRaised, gitError, fnVars>>

\* Line 400 and connect_ssh: ssh.connect either returns, and run_backup's ssh
\* holds the open session, or raises, and ssh stays None.
Connect(ok) ==
    /\ pc = "connect"
    /\ events' = Append(events, "connect")
    /\ IF ok
          THEN /\ ssh' = TRUE
               /\ session' = "open"
               /\ pc' = "download"
               /\ UNCHANGED failed
          ELSE /\ Raise("connect")
               /\ UNCHANGED <<ssh, session>>
    /\ UNCHANGED <<now, repoVars, tmpOnDisk, runs, cmd, test_mode, temp_dir,
                   backup_files, changed, result, exitCode, notified, delivery,
                   checkRaised, gitError, fnVars>>

\* Line 403 and download_config.  mkdtemp comes first.  With 'tar.gz' among
\* the formats, the remote command runs and the archive is fetched over
\* SFTP; either may raise, and then download_config re-raises without
\* returning temp_dir, so run_backup's temp_dir stays None.  The 'cfg'
\* branch is commented out in the source: no cfg artifact is ever retrieved.
Download(fmts, out, a) ==
    /\ pc = "download"
    /\ tmpOnDisk' = tmpOnDisk + 1
    /\ IF "tar.gz" \in fmts
          THEN CASE out = "exec_raises" ->
                      /\ events' = Append(events, "exec")
                      /\ Raise("download")
                      /\ UNCHANGED <<temp_dir, backup_files>>
                 [] out = "sftp_raises" ->
                      /\ events' = events \o <<"exec", "sftp">>
                      /\ Raise("download")
                      /\ UNCHANGED <<temp_dir, backup_files>>
                 [] out = "ok" ->
                      /\ events' = events \o <<"exec", "sftp">>
                      /\ backup_files' = [fmt \in {"tar.gz"} |-> a]
                      /\ temp_dir' = TRUE
                      /\ pc' = "validate"
                      /\ UNCHANGED failed
          ELSE /\ backup_files' = NoFiles
               /\ temp_dir' = TRUE
               /\ pc' = "validate"
               /\ UNCHANGED <<events, failed>>
    /\ UNCHANGED <<now, repoVars, runs, cmd, test_mode, ssh, session, changed,
                   result, exitCode, notified, delivery, checkRaised, gitError, fnVars>>

\* Faulty variants of AfterValidate: the dry run does not return early; the
\* result of the validation is ignored.
AfterValidate_NoDryRunReturn(ok, tm) == IF ~ok THEN "raise" ELSE "save"
AfterValidate_IgnoreResult(ok, tm) == IF tm THEN "return" ELSE "save"

\* What run_backup does after validation (lines 406-412).
AfterValidate(ok, tm) ==
    IF ~ok THEN "raise" ELSE IF tm THEN "return" ELSE "save"

Validate ==
    /\ pc = "validate"
    /\ events' = Append(events, "validate")
    /\ LET next == AfterValidate(validate_backup_files(backup_files).ok, test_mode)
       IN  CASE next = "raise" -> Raise("validate") /\ UNCHANGED result
             [] next = "return" ->
                  result' = "true" /\ pc' = "finally" /\ UNCHANGED failed
             [] next = "save" -> pc' = "save" /\ UNCHANGED <<failed, result>>
    /\ UNCHANGED <<now, repoVars, tmpOnDisk, runs, cmd, test_mode, ssh, session,
                   temp_dir, backup_files, changed, exitCode, notified, delivery,
                   checkRaised, gitError, fnVars>>

\* save_to_repo: each artifact is copied to <root>/<YYYY>/<MM>/
\* backup-<date>.<fmt>, the date read from the clock.  A failing mkdir or
\* copy2 (copied = FALSE) raises.
save_to_repo(t, n, bf) ==
    [f \in FileNames |->
        IF \E fmt \in DOMAIN bf : f = DestFile(n, fmt)
           THEN bf[f.ext].content
           ELSE t[f]]

Save(copied) ==
    /\ pc = "save"
    /\ IF copied
          THEN /\ tree' = save_to_repo(tree, now, backup_files)
               /\ events' = Append(events, "store")
               /\ pc' = "gitopen"
               /\ UNCHANGED failed
          ELSE /\ Raise("save")
               /\ UNCHANGED <<tree, events>>
    /\ UNCHANGED <<now, rootExists, index, head, hasGit, hasOrigin, commits,
                   tmpOnDisk, runs, cmd, test_mode, ssh, session, temp_dir,
                   backup_files, changed, result, exitCode, notified, delivery,
                   checkRaised, gitError, fnVars>>

\* --------------------------------------------------- git_commit_and_push
\* The except clauses of git_commit_and_push (lines 325-333), which guard
\* the whole body: a GitCommandError is logged as a failed push and the
\* function returns changed; any other exception is re-raised.
GitHandler(exc) == IF exc = "GitCommandError" THEN "return" ELSE "raise"

\* An exception of kind exc raised at `stage` inside git_commit_and_push.
\* On "return" run_backup goes on with the retention pass.
GitRaise(stage, exc) ==
    /\ gitError' = stage
    /\ IF GitHandler(exc) = "return"
          THEN pc' = "prune" /\ UNCHANGED failed
          ELSE Raise(stage)

\* Lines 276-290.  Without <root>/.git: Repo.init, which runs git and may
\* raise GitCommandError, then create_remote, whose failure is swallowed
\* (remoteAdded = FALSE).  With it: Repo(repo_path), which raises
\* InvalidGitRepositoryError on a broken repository.  (The test_mode return
\* of line 292 is never taken: run_backup returns before this call.)
GitOpen(out, remoteAdded) ==
    /\ pc = "gitopen"
    /\ IF out = "ok"
          THEN /\ pc' = "gitadd"
               /\ hasGit' = TRUE
               /\ hasOrigin' = IF hasGit THEN hasOrigin ELSE remoteAdded
               /\ UNCHANGED <<failed, gitError>>
          ELSE /\ out = "GitCommandError" => ~hasGit
               /\ GitRaise("gitopen", out)
               /\ UNCHANGED <<hasGit, hasOrigin>>
    /\ UNCHANGED <<now, rootExists, tree, index, head, commits, tmpOnDisk, runs,
                   cmd, test_mode, ssh, session, temp_dir, backup_files,
                   changed, result, exitCode, events, notified, delivery, checkRaised,
                   fnVars>>

\* Line 296: repo.git.add('.') stages the whole tree, or git fails.
GitAdd(out) ==
    /\ pc = "gitadd"
    /\ IF out = "ok"
          THEN /\ index' = tree
               /\ pc' = "commit"
               /\ UNCHANGED <<failed, gitError>>
          ELSE /\ GitRaise("gitadd", out)
               /\ UNCHANGED index
    /\ UNCHANGED <<now, rootExists, tree, head, hasGit, hasOrigin, commits,
                   tmpOnDisk, runs, cmd, test_mode, ssh, session, temp_dir,
                   backup_files, changed, result, exitCode, events, notified, delivery,
                   checkRaised, fnVars>>

\* A faulty variant of check_for_changes: an error counts as no change.
check_for_changes_FailClosed(dirty, raised) == IF raised THEN FALSE ELSE dirty

\* check_for_changes(repo): is_dirty, or True when it raises.
check_for_changes(dirty, raised) == IF raised THEN TRUE ELSE dirty

\* A faulty variant of ChangedAfterCheck: the result of the check is dropped.
ChangedAfterCheck_IgnoreCheck(chg, check) == chg

\* Lines 299-310: the value of changed after the check, and the message.
ChangedAfterCheck(chg, check) == IF ~check THEN FALSE ELSE chg
CommitMsg(chg) == IF chg THEN "changed" ELSE "nochange"

\* Lines 299-314: check for changes, build the message, repo.index.commit.
\* The commit is written in Python by GitPython; when it fails it raises an
\* exception that is not a GitCommandError (committed = FALSE).
GitCommit(raised, committed) ==
    /\ pc = "commit"
    /\ checkRaised' = raised
    /\ LET check == check_for_changes(IsDirty(tree, index, head), raised)
           chg == ChangedAfterCheck(changed, check)
       IN  IF committed
              THEN /\ changed' = chg
                   /\ head' = index
                   /\ commits' = Append(commits, CommitMsg(chg))
                   /\ events' = Append(events, "commit")
                   /\ pc' = "push"
                   /\ UNCHANGED <<failed, gitError>>
              ELSE /\ GitRaise("commit", "Exception")
                   /\ UNCHANGED <<changed, head, commits, events>>
    /\ UNCHANGED <<now, rootExists, tree, index, hasGit, hasOrigin, tmpOnDisk,
                   runs, cmd, test_mode, ssh, session, temp_dir, backup_files,
                   result, exitCode, notified, delivery, fnVars>>

\* Lines 317-323.  With auto_push: repo.remote('origin') raises ValueError
\* when the repository has no remote of that name; origin.push() contacts
\* the remote and raises GitCommandError when it cannot be reached.
GitPush(auto_push, reached) ==
    /\ pc = "push"
    /\ IF ~auto_push
          THEN pc' = "prune" /\ UNCHANGED <<failed, events, gitError>>
          ELSE IF ~hasOrigin
                  THEN GitRaise("push", "ValueError") /\ UNCHANGED events
                  ELSE /\ events' = Append(events, "push")
                       /\ IF reached
                             THEN pc' = "prune" /\ UNCHANGED <<failed, gitError>>
                             ELSE GitRaise("push", "GitCommandError")
    /\ UNCHANGED <<now, repoVars, tmpOnDisk, runs, cmd, test_mode, ssh, session,
                   temp_dir, backup_files, changed, result, exitCode, notified, delivery,
                   checkRaised, fnVars>>

\* ------------------------------------------------- run_backup, continued
\* A faulty variant of Prune: the pass stages and commits what it removed.
Prune_ThenCommit(days, fails) ==
    /\ pc = "prune"
    /\ tree' = cleanup_old_backups(tree, now, days, test_mode, fails).tree
    /\ index' = tree'
    /\ head' = tree'
    /\ commits' = IF tree' # tree THEN Append(commits, "cleanup") ELSE commits
    /\ events' = Append(events, "prune")
    /\ pc' = "notify"
    /\ UNCHANGED <<now, rootExists, hasGit, hasOrigin, tmpOnDisk, runs, cmd,
                   test_mode, ssh, session, temp_dir, backup_files, changed,
                   failed, result, exitCode, notified, delivery, checkRaised,
                   gitError, fnVars>>

\* Line 421: cleanup_old_backups(config, test_mode) with the configured
\* retention_days; `fails` are the files whose unlink raises.
Prune(days, fails) ==
    /\ pc = "prune"
    /\ tree' = cleanup_old_backups(tree, now, days, test_mode, fails).tree
    /\ events' = Append(events, "prune")
    /\ pc' = "notify"
    /\ UNCHANGED <<now, rootExists, index, head, hasGit, hasOrigin, commits,
                   tmpOnDisk, runs, cmd, test_mode, ssh, session, temp_dir,
                   backup_files, changed, failed, result, exitCode, notified, delivery,
                   checkRaised, gitError, fnVars>>

\* A faulty variant of send_macos_notification: without the try/except
\* around osascript.
send_macos_notification_NoHandler(macos_native, ran) ==
    IF macos_native /\ ~ran THEN "raised" ELSE "ok"

\* send_macos_notification(title, message, config): it returns at once when
\* notifications.macos_native is off; otherwise it runs osascript, and when
\* that raises (ran = FALSE) the exception is logged as a warning and the
\* function returns ("failed").
send_macos_notification(macos_native, ran) ==
    IF macos_native /\ ~ran THEN "failed" ELSE "ok"

\* Lines 427-432: the success notification and its message.
SuccessMsg(on_changes, chg) ==
    IF on_changes /\ chg THEN "success_changed" ELSE "success_nochange"

\* Lines 424-434: notify when configured, return True.  An exception out of
\* the notification would reach the except clause like any other.
NotifySuccess(on_success, on_changes, macos_native, ran) ==
    /\ pc = "notify"
    /\ notified' = IF on_success THEN SuccessMsg(on_changes, changed) ELSE "none"
    /\ delivery' = IF on_success
                      THEN send_macos_notification(macos_native, ran) ELSE "none"
    /\ IF delivery' = "raised"
          THEN Raise("notify") /\ UNCHANGED result
          ELSE result' = "true" /\ pc' = "finally" /\ UNCHANGED failed
    /\ UNCHANGED <<now, repoVars, tmpOnDisk, runs, cmd, test_mode, ssh, session,
                   temp_dir, backup_files, changed, exitCode, events,
                   checkRaised, gitError, fnVars>>

\* Lines 436-442: log, notify when configured, return False.  An exception
\* out of the notification would leave run_backup, after the finally block.
Except(on_failure, macos_native, ran) ==
    /\ pc = "except"
    /\ notified' = IF on_failure THEN "failure" ELSE "none"
    /\ delivery' = IF on_failure
                      THEN send_macos_notification(macos_native, ran) ELSE "none"
    /\ result' = IF delivery' = "raised" THEN "raised" ELSE "false"
    /\ pc' = "finally"
    /\ UNCHANGED <<now, repoVars, tmpOnDisk, runs, cmd, test_mode, ssh, session,
                   temp_dir, backup_files, changed, failed, exitCode, events,
                   checkRaised, gitError, fnVars>>

\* A faulty variant of Finally: the session is closed on the success path
\* only.
Finally_CloseOnSuccessOnly ==
    /\ pc = "finally"
    /\ session' = IF ssh /\ result = "true" THEN "closed" ELSE session
    /\ events' = IF ssh /\ result = "true" THEN Append(events, "close") ELSE events
    /\ tmpOnDisk' = IF temp_dir THEN tmpOnDisk - 1 ELSE tmpOnDisk
    /\ pc' = "returned"
    /\ UNCHANGED <<now, repoVars, runs, cmd, test_mode, ssh, temp_dir,
                   backup_files, changed, failed, result, exitCode, notified, delivery,
                   checkRaised, gitError, fnVars>>

\* Lines 444-450: close the session when ssh holds one, remove the temporary
\* directory when temp_dir names one.
Finally ==
    /\ pc = "finally"
    /\ session' = IF ssh THEN "closed" ELSE session
    /\ events' = IF ssh THEN Append(events, "close") ELSE events
    /\ tmpOnDisk' = IF temp_dir THEN tmpOnDisk - 1 ELSE tmpOnDisk
    /\ pc' = "returned"
    /\ UNCHANGED <<now, repoVars, runs, cmd, test_mode, ssh, temp_dir,
                   backup_files, changed, failed, result, exitCode, notified, delivery,
                   checkRaised, gitError, fnVars>>

\* The process ends with status `code`: its locals are gone, what it left on
\* disk stays.
ProcessExit(code) ==
    /\ exitCode' = code
    /\ pc' = "idle"
    /\ test_mode' = FALSE
    /\ ssh' = FALSE
    /\ session' = "none"
    /\ temp_dir' = FALSE
    /\ backup_files' = NoFiles
    /\ changed' = TRUE
    /\ failed' = "none"
    /\ result' = "none"
    /\ events' = <<>>
    /\ notified' = "none"
    /\ delivery' = "none"
    /\ checkRaised' = FALSE
    /\ gitError' = "none"
    /\ cmd' = "none"
    /\ tmpOnDisk' = 0
    /\ UNCHANGED <<now, runs, rootExists, tree, hasGit, hasOrigin, fnVars>>

\* A faulty variant of ExitCode: the status does not depend on the outcome.
ExitCode_AlwaysZero(success) == "0"

\* main, lines 536-542: sys.exit(0 if success else 1); an exception that
\* leaves run_backup ends the process with status 1.
ExitCode(success) == IF success = "true" THEN "0" ELSE "1"

Exit ==
    /\ pc = "returned"
    /\ ProcessExit(ExitCode(result))
    /\ UNCHANGED <<index, head, commits>>

\* ------------------------------------------------- main: the cleanup command
\* Lines 552-554: the repository root does not exist.
CleanupMissing ==
    /\ pc = "cleanup"
    /\ ~rootExists
    /\ ProcessExit("1")
    /\ UNCHANGED <<index, head, commits>>

\* A faulty variant of CommitAfterCleanup: the commit is attempted always.
CommitAfterCleanup_Always(removed) == TRUE

\* Line 559: if removed > 0.
CommitAfterCleanup(removed) == removed > 0

\* Lines 556-559: the retention pass; the commit follows when it removed
\* something.
CleanupScan(days, fails) ==
    /\ pc = "cleanup"
    /\ rootExists
    /\ LET r == cleanup_old_backups(tree, now, days, FALSE, fails)
       IN  /\ tree' = r.tree
           /\ pc' = IF CommitAfterCleanup(r.count)
                       THEN "cleanup_commit" ELSE "cleanup_exit"
    /\ events' = Append(events, "prune")
    /\ UNCHANGED <<now, rootExists, index, head, hasGit, hasOrigin, commits,
                   tmpOnDisk, runs, cmd, test_mode, ssh, session, temp_dir,
                   backup_files, changed, failed, result, exitCode, notified, delivery,
                   checkRaised, gitError, fnVars>>

\* Lines 560-571: Repo, add(A=True), commit, push when auto_push; any
\* exception is logged as a warning.  `out` is the step that raises.
CleanupCommit(out, auto_push) ==
    /\ pc = "cleanup_commit"
    /\ ~hasGit => out = "repo_raises"
    /\ index' = IF out \in {"commit_raises", "ok"} THEN tree ELSE index
    /\ head' = IF out = "ok" THEN tree ELSE head
    /\ commits' = IF out = "ok" THEN Append(commits, "cleanup") ELSE commits
    /\ events' = IF out = "ok"
                    THEN IF auto_push /\ hasOrigin
                            THEN events \o <<"commit", "push">>
                            ELSE Append(events, "commit")
                    ELSE events
    /\ pc' = "cleanup_exit"
    /\ UNCHANGED <<now, rootExists, tree, hasGit, hasOrigin, tmpOnDisk, runs,
                   cmd, test_mode, ssh, session, temp_dir, backup_files,
                   changed, failed, result, exitCode, notified, delivery, checkRaised, gitError,
                   fnVars>>

\* Line 573: sys.exit(0).
CleanupExit ==
    /\ pc = "cleanup_exit"
    /\ ProcessExit("0")
    /\ UNCHANGED <<index, head, commits>>

\* ------------------------------------------------------ the specification
Commands == {"run", "test", "cleanup"}
GitOutcomes == {"ok", "GitCommandError", "Exception"}

Next ==
    \/ Tick
    \/ \E c \in Commands, relLog \in BOOLEAN, n \in 0..MaxRunNow :
          StartCmd(c, relLog, n)
    \/ \E enough \in BOOLEAN : Preflight(enough)
    \/ \E ok \in BOOLEAN : Connect(ok)
    \/ \E fmts \in SUBSET Formats, out \in {"exec_raises", "sftp_raises", "ok"},
          a \in Artifacts : Download(fmts, out, a)
    \/ Validate
    \/ \E copied \in BOOLEAN : Save(copied)
    \/ \E out \in GitOutcomes, remoteAdded \in BOOLEAN : GitOpen(out, remoteAdded)
    \/ \E out \in GitOutcomes : GitAdd(out)
    \/ \E raised \in BOOLEAN, committed \in BOOLEAN : GitCommit(raised, committed)
    \/ \E auto_push \in BOOLEAN, reached \in BOOLEAN : GitPush(auto_push, reached)
    \/ \E days \in 0..MaxRetention :
          \E fails \in SUBSET Eligible(tree, now, days) : Prune(days, fails)
    \/ \E on_success \in BOOLEAN, on_changes \in BOOLEAN,
          macos_native \in BOOLEAN, ran \in BOOLEAN :
          NotifySuccess(on_success, on_changes, macos_native, ran)
    \/ \E on_failure \in BOOLEAN, macos_native \in BOOLEAN, ran \in BOOLEAN :
          Except(on_failure, macos_native, ran)
    \/ Finally
    \/ Exit
    \/ CleanupMissing
    \/ \E days \in 0..MaxRetention :
          \E fails \in SUBSET Eligible(tree, now, days) : CleanupScan(days, fails)
    \/ \E out \in {"repo_raises", "add_raises", "commit_raises", "ok"},
          auto_push \in BOOLEAN : CleanupCommit(out, auto_push)
    \/ CleanupExit

Spec == Init /\ [][Next]_vars

\* ------------------------------------- the retention pass as a function
\* cleanup_old_backups applied once to any tree of at most MaxPruneFiles
\* files, at any instant, with any retention_days, in either mode.
PruneTrees ==
    {[f \in FileNames |-> IF f \in S THEN 1 ELSE 0] :
        S \in {S \in SUBSET FileNames : Cardinality(S) <= MaxPruneFiles}}

PruneInit ==
    /\ InitRun
    /\ now \in Nows
    /\ tree \in PruneTrees
    /\ rootExists = TRUE
    /\ hasGit = FALSE
    /\ hasOrigin = FALSE
    /\ head = EmptyTree
    /\ index = EmptyTree
    /\ commits = <<>>
    /\ valIn = <<>>
    /\ valOut = NoResult

PruneCall(days, tm, fails) ==
    /\ ~pruneIn.called
    /\ LET r == cleanup_old_backups(tree, now, days, tm, fails)
       IN  /\ tree' = r.tree
           /\ pruneOut' = r.count
    /\ pruneIn' = [called |-> TRUE, tree |-> tree, now |-> now, days |-> days,
                   test_mode |-> tm, fails |-> fails]
    /\ UNCHANGED <<now, rootExists, index, head, hasGit, hasOrigin, commits,
                   tmpOnDisk, runs, runVars, valVars>>

PruneNext ==
    \E days \in 0..MaxRetention, tm \in BOOLEAN :
        \E fails \in SUBSET Eligible(tree, now, days) : PruneCall(days, tm, fails)

PruneSpec == PruneInit /\ [][PruneNext]_vars

\* ------------------------------------------ the validation as a function
\* validate_backup_files applied once to any dict of at most one path per
\* declared format, in either insertion order.
ValidateInputs ==
    LET one == [fmt : Formats, file : Files]
    IN  {<<>>} \cup {<<x>> : x \in one}
            \cup {p \in one \X one : p[1].fmt # p[2].fmt}

ValidateInit ==
    /\ InitRun
    /\ now = 0
    /\ tree = EmptyTree
    /\ rootExists = TRUE
    /\ hasGit = FALSE
    /\ hasOrigin = FALSE
    /\ head = EmptyTree
    /\ index = EmptyTree
    /\ commits = <<>>
    /\ valIn \in ValidateInputs
    /\ valOut = NoResult

ValidateCall ==
    /\ ~valOut.called
    /\ LET r == ValidateItems(valIn)
       IN  valOut' = [called |-> TRUE, ok |-> r.ok, reason |-> r.reason]
    /\ UNCHANGED <<now, repoVars, tmpOnDisk, runs, runVars, pruneVars, valIn>>

ValidateSpec == ValidateInit /\ [][ValidateCall]_vars

\* ================================================================ claims
Has(e) == \E i \in DOMAIN events : events[i] = e
Count(e) == Cardinality({i \in DOMAIN events : events[i] = e})
NetworkEvents == {"connect", "exec", "sftp", "push"}
RemoteOps == {"exec", "sftp"}
IsBackupRun == cmd \in {"run", "test"}

\* C1: a dry run (test mode) changes nothing that persists: while it runs,
\* whatever the outcome of connection, retrieval or validation, no file under
\* the repository root is written or removed, the index and the repository
\* are untouched, no commit is added, and no store, commit, push or retention
\* step is taken.  (Creating the root directory itself is not a file under
\* it.)
C1_DryRunChangesNothing ==
    [][test_mode =>
          /\ tree' = tree
          /\ index' = index
          /\ head' = head
          /\ commits' = commits
          /\ hasGit' = hasGit
          /\ hasOrigin' = hasOrigin
          /\ \A i \in DOMAIN events' :
                events'[i] \notin {"store", "commit", "push", "prune"}]_vars

C1_Witness ==
    /\ test_mode
    /\ pc = "returned"
    /\ result = "true"
    /\ "tar.gz" \in DOMAIN backup_files

\* C2: when run_backup returns, on any path, every temporary directory made
\* during the run has been removed.
C2_TempDirAlwaysRemoved == pc = "returned" => tmpOnDisk = 0

\* C3: a remote command or transfer happens only on an open session, after
\* the connect and before any close; and when run_backup returns, on any
\* path, no session is left open.
C3_SessionScoped ==
    /\ \A i \in DOMAIN events :
          events[i] \in RemoteOps =>
              /\ session # "none"
              /\ \E j \in 1..(i - 1) : events[j] = "connect"
              /\ \A j \in 1..i : events[j] # "close"
    /\ session = "open" => ssh /\ pc \notin {"returned", "idle"}
    /\ pc = "returned" /\ Has("exec") => session = "closed" /\ Has("close")

C3_Witness ==
    /\ pc = "returned"
    /\ session = "closed"
    /\ result = "false"
    /\ failed = "commit"

\* C4: when the free-space check fails, no network activity happens in the
\* run (no connection attempt, remote command, transfer or push), the run
\* returns failure and the process exits with status 1.
C4_PreflightFailure ==
    /\ [](failed = "preflight" =>
            /\ \A i \in DOMAIN events : events[i] \notin NetworkEvents
            /\ pc \in {"except", "finally", "returned"}
            /\ pc = "returned" => result = "false")
    /\ [][failed = "preflight" /\ pc = "returned" => exitCode' = "1"]_vars

C4_Witness == failed = "preflight" /\ pc = "returned" /\ cmd = "run"

\* C5: in a run whose steps through the local commit succeeded, a failing
\* push never makes the run fail: the run still prunes and returns success.
C5_PushFailureNotFatal ==
    cmd = "run" /\ pc = "returned" /\ gitError = "push" =>
        result = "true" /\ Has("prune")

\* C6: in a run, when opening or initialising the repository, staging or
\* committing fails, the run returns failure, without a retention pass and
\* without a success notification.
C6_LocalGitFailureAborts ==
    cmd = "run" /\ pc = "returned" /\ gitError \in {"gitopen", "gitadd", "commit"} =>
        /\ result = "false"
        /\ ~Has("prune")
        /\ notified \notin {"success_changed", "success_nochange"}

\* The place of each step in the order preflight, connect, fetch, validate,
\* store, commit, push, prune (closing the session comes last).
StageRank(e) ==
    CASE e = "preflight" -> 1
      [] e = "connect" -> 2
      [] e \in RemoteOps -> 3
      [] e = "validate" -> 4
      [] e = "store" -> 5
      [] e = "commit" -> 6
      [] e = "push" -> 7
      [] e = "prune" -> 8
      [] e = "close" -> 9

\* C7: in a backup run the steps are taken in the order preflight, connect,
\* fetch, validate, store, commit, push, prune, each at most once; after a
\* failure of preflight, connection, retrieval or validation nothing is
\* stored, committed or pruned; and whenever something is stored, committed
\* or pruned, every retrieved artifact has passed validation.
C7_StageOrderFailFast ==
    IsBackupRun =>
        /\ \A i, j \in DOMAIN events :
              i < j => \/ StageRank(events[i]) < StageRank(events[j])
                       \/ events[i] = "exec" /\ events[j] = "sftp"
        /\ failed \in {"preflight", "connect", "download", "validate"} =>
              ~Has("store") /\ ~Has("commit") /\ ~Has("push") /\ ~Has("prune")
        /\ Has("store") \/ Has("commit") \/ Has("prune") \/ pc = "save" =>
              /\ Has("validate")
              /\ validate_backup_files(backup_files).ok

C7_Witness ==
    /\ cmd = "run"
    /\ pc = "returned"
    /\ failed = "validate"
    /\ ~validate_backup_files(backup_files).ok

\* C8 as claimed: each commit of a run is the only one of that run, and its
\* message says "changed" exactly when the working tree differed from the
\* last commit at that moment.
C8_MessageIffTreeDiffers ==
    [][cmd = "run" /\ commits' # commits =>
          /\ Len(commits') = Len(commits) + 1
          /\ Count("commit")' = 1
          /\ commits'[Len(commits')] = "changed" <=> IsDirty(tree, index, head)]_vars

\* C8 amended: each commit of a run is the only one of that run, and its
\* message says "nochange" exactly when the change check completed and found
\* the working tree equal to the last commit; it says "changed" when the
\* tree differed or when the check itself raised.
C8_MessageReflectsCheck ==
    [][cmd = "run" /\ (commits' # commits \/ pc' = "push") =>
          /\ Len(commits') = Len(commits) + 1
          /\ Count("commit")' = 1
          /\ commits'[Len(commits')] = "changed" <=>
                (IsDirty(tree, index, head) \/ checkRaised')]_vars

\* A second commit in the history, made by a run that found nothing changed.
C8_Witness ==
    /\ cmd = "run"
    /\ pc = "push"
    /\ Len(commits) >= 2
    /\ commits[Len(commits)] = "nochange"
    /\ ~checkRaised

\* The files a retention pass is to remove: those of a declared format whose
\* date is before the cutoff day, today minus retention_days.
OlderThanCutoff(t, n, days) ==
    {f \in Present(t) : f.ext \in Formats /\ f.parsable /\ f.date < Today(n) - days}

\* C9: on a tree of backup files of the declared formats, a retention pass
\* that is not a dry run removes exactly the files dated before the cutoff
\* day, keeps the file dated on the cutoff day and the newer ones, and
\* returns the number of files it removed.
C9_PruneRemovesExactlyOlder ==
    /\ pruneIn.called
    /\ ~pruneIn.test_mode
    /\ \A f \in Present(pruneIn.tree) : f.ext \in Formats /\ f.parsable
    =>
        LET old == OlderThanCutoff(pruneIn.tree, pruneIn.now, pruneIn.days)
        IN  /\ tree = [f \in FileNames |-> IF f \in old THEN 0 ELSE pruneIn.tree[f]]
            /\ pruneOut = Cardinality(old)

\* C10: a dry-run retention pass deletes nothing and returns the count that
\* the real pass returns on the same tree at the same instant when no
\* deletion fails.
C10_DryRunSameCount ==
    pruneIn.called /\ pruneIn.test_mode =>
        /\ tree = pruneIn.tree
        /\ pruneOut = cleanup_old_backups(pruneIn.tree, pruneIn.now,
                                          pruneIn.days, FALSE, {}).count
        /\ pruneOut = Cardinality(Present(pruneIn.tree))
                        - Cardinality(Present(
                              cleanup_old_backups(pruneIn.tree, pruneIn.now,
                                                  pruneIn.days, FALSE, {}).tree))

C10_Witness ==
    /\ pruneIn.called
    /\ pruneIn.test_mode
    /\ pruneOut >= 2
    /\ Cardinality(Present(tree)) > pruneOut

\* C11: a store writes, for each format of the batch, the file named by the
\* calendar day of the clock and the format, with the new content, whether or
\* not a file of that name was there, and touches no other file: after any
\* store the tree holds exactly one file of that format for that day, so runs
\* on one day overwrite and never add a second file.  (A file is its name:
\* the tree holds at most one file per day and format.)
C11_SameDayOverwrite ==
    [][cmd = "run" /\ pc = "save" /\ pc' = "gitopen" =>
          /\ \A fmt \in DOMAIN backup_files :
                LET todays == {f \in Present(tree') :
                                  /\ f.parsable
                                  /\ f.ext = fmt
                                  /\ f.date = now \div TicksPerDay}
                IN  /\ Cardinality(todays) = 1
                    /\ \A f \in todays : tree'[f] = backup_files[fmt].content
          /\ \A f \in FileNames :
                tree'[f] # tree[f] =>
                    /\ f.parsable
                    /\ f.ext \in DOMAIN backup_files
                    /\ f.date = now \div TicksPerDay
                    /\ tree[f] # 0 =>
                          Cardinality(Present(tree')) = Cardinality(Present(tree))]_vars

\* The second run of day 1 has stored another content over the file that the
\* first run of that day stored and committed.
C11_Witness ==
    /\ cmd = "run"
    /\ runs = 2
    /\ pc = "gitopen"
    /\ now \div TicksPerDay = 1
    /\ tree[[date |-> 1, ext |-> "tar.gz", parsable |-> TRUE]] = 2
    /\ head[[date |-> 1, ext |-> "tar.gz", parsable |-> TRUE]] = 1
    /\ Cardinality(Present(tree)) = 1

\* C12: when the connection fails, the run ends in failure with exit status
\* 1; between the failure and the exit nothing under the repository root
\* changes (the year/month directory is made by the store only, which is
\* never reached), the repository is not opened, staged or committed, no
\* remote command runs and no temporary directory exists.
C12_UnreachableTarget ==
    /\ [](failed = "connect" =>
            /\ pc \in {"except", "finally", "returned"}
            /\ events = <<"preflight", "connect">>
            /\ session = "none"
            /\ ~ssh
            /\ tmpOnDisk = 0
            /\ ~temp_dir
            /\ backup_files = NoFiles
            /\ gitError = "none"
            /\ notified \in {"none", "failure"}
            /\ pc \in {"finally", "returned"} => result = "false")
    /\ [][failed = "connect" \/ failed' = "connect" =>
              /\ tree' = tree
              /\ index' = index
              /\ head' = head
              /\ commits' = commits
              /\ hasGit' = hasGit
              /\ pc = "returned" => exitCode' = "1"]_vars

C12_Witness ==
    /\ cmd = "run"
    /\ failed = "connect"
    /\ pc = "returned"
    /\ notified = "failure"
    /\ tree = EmptyTree

\* C13 as claimed: in the cleanup command the commit is attempted exactly
\* when the retention pass removed a file; when it removed none the tree is
\* as before and nothing is staged, committed or pushed; and the command
\* exits with status 0.
C13_CleanupCommitIffRemoved ==
    [][cmd = "cleanup" =>
          /\ pc = "cleanup" =>
                LET removed == Present(tree) \ Present(tree')
                IN  /\ pc' = "cleanup_commit" <=> removed # {}
                    /\ removed = {} => tree' = tree
          /\ \/ commits' # commits
             \/ head' # head
             \/ index' # index
             \/ Count("commit")' > Count("commit")
             \/ Count("push")' > Count("push")
             => pc = "cleanup_commit"
          /\ pc' = "idle" => exitCode' = "0"]_vars

\* C13 amended: as claimed when the repository root exists; when it does not,
\* the command runs no retention pass, changes nothing and exits with
\* status 1.
C13_CleanupCommitIffRemovedOrNoRoot ==
    [][cmd = "cleanup" =>
          /\ pc = "cleanup" =>
                LET removed == Present(tree) \ Present(tree')
                IN  /\ pc' = "cleanup_commit" <=> removed # {}
                    /\ removed = {} => tree' = tree
                    /\ ~rootExists => pc' = "idle" /\ removed = {}
          /\ \/ commits' # commits
             \/ head' # head
             \/ index' # index
             \/ Count("commit")' > Count("commit")
             \/ Count("push")' > Count("push")
             => pc = "cleanup_commit"
          /\ pc' = "idle" => exitCode' = IF rootExists THEN "0" ELSE "1"]_vars

\* The cleanup command removed a file and committed the deletion.
C13_Witness ==
    /\ cmd = "cleanup"
    /\ pc = "cleanup_exit"
    /\ Has("prune")
    /\ Has("commit")
    /\ commits[Len(commits)] = "cleanup"
    /\ head = tree

\* What the contract of the validation asks of one item, and the reason it
\* names for an item that fails: existence first, then size, then the
\* structural check of the format.
Acceptable(it) == it.file.exists /\ it.file.size > 0 /\ it.file.wellformed
ExpectedReason(it) ==
    IF ~it.file.exists THEN "not found"
    ELSE IF it.file.size = 0 THEN "empty"
    ELSE IF it.fmt = "tar.gz" THEN "corrupt archive"
    ELSE "no configuration"

\* C14: validate_backup_files accepts a batch exactly when every item exists,
\* is not empty and passes the structural check of its format; when it
\* rejects, the reason is that of the first item in iteration order that
\* fails, by the first of the three checks that fails for it; so when that
\* item is a zero-byte file the reason is the empty-file one, whatever the
\* format.
C14_ValidateOrderAndReason ==
    valOut.called =>
        /\ valOut.ok <=> \A i \in DOMAIN valIn : Acceptable(valIn[i])
        /\ valOut.ok => valOut.reason = "ok"
        /\ \A i \in DOMAIN valIn :
              /\ ~Acceptable(valIn[i])
              /\ \A j \in 1..(i - 1) : Acceptable(valIn[j])
              => /\ valOut.reason = ExpectedReason(valIn[i])
                 /\ valIn[i].file.exists /\ valIn[i].file.size = 0 =>
                       /\ valOut.reason = "empty"
                       /\ valOut.reason \notin {"corrupt archive", "no configuration"}

\* A valid archive followed by a zero-byte cfg file: rejected as empty.
C14_Witness ==
    /\ valOut.called
    /\ Len(valIn) = 2
    /\ Acceptable(valIn[1])
    /\ valIn[2].fmt = "cfg"
    /\ valIn[2].file.exists
    /\ valIn[2].file.size = 0
    /\ ~valOut.ok
    /\ valOut.reason = "empty"

\* The steps of a run whose error the design makes fatal: every step but the
\* push, the per-file work of the retention pass and the notification.
FatalStages ==
    {"preflight", "connect", "download", "validate", "save", "gitopen", "gitadd",
     "commit"}

\* C15: a backup run returns exactly one of success and failure; when an
\* error was raised at a stage whose errors are fatal, it returns failure,
\* with no other notification than the failure one; and main maps success to
\* status 0 and failure to status 1.
C15_ErrorLeadsToFailure ==
    IsBackupRun /\ pc = "returned" =>
        /\ result \in {"true", "false"}
        /\ failed \in FatalStages \/ gitError \in FatalStages =>
              /\ result = "false"
              /\ notified \in {"none", "failure"}
        /\ result = "true" => notified # "failure"
        /\ ExitCode(result) = "0" <=> result = "true"

\* C16: when the delivery of a notification fails, run_backup still returns,
\* and returns what the pipeline decided: success when no stage raised (the
\* notification was the success one), failure when a stage raised (the
\* notification was the failure one).
C16_NotificationFailureHarmless ==
    IsBackupRun /\ delivery \notin {"none", "ok"} =>
        /\ delivery = "failed"
        /\ pc \in {"finally", "returned"}
        /\ result \in {"true", "false"}
        /\ result = "true" <=> failed = "none"
        /\ result = "true" <=> notified \in {"success_changed", "success_nochange"}
        /\ result = "false" <=> notified = "failure"

\* A run that stored and committed, whose success notification could not be
\* delivered, has returned success.
C16_Witness ==
    /\ cmd = "run"
    /\ pc = "returned"
    /\ delivery = "failed"
    /\ notified = "success_changed"
    /\ Has("commit")
    /\ result = "true"

\* C17: a retention pass in which the removal of some files fails, or which
\* meets files whose name carries no date, does to every other file what it
\* does without the failure: each file the scan reaches with a date before
\* the cutoff, other than the failing ones, is removed; the failing files and
\* the undated ones stay; and the count returned is the number of files
\* removed, the failing ones not counted.
C17_PerFileFailureSkipped ==
    pruneIn.called /\ ~pruneIn.test_mode =>
        LET clean == cleanup_old_backups(pruneIn.tree, pruneIn.now, pruneIn.days,
                                         FALSE, {})
            gone == Present(pruneIn.tree) \ Present(tree)
            goneClean == Present(pruneIn.tree) \ Present(clean.tree)
        IN  /\ gone = goneClean \ pruneIn.fails
            /\ \A f \in Present(pruneIn.tree) :
                  /\ f.ext = "{tar.gz,cfg}"
                  /\ f.parsable
                  /\ f.date * TicksPerDay < pruneIn.now - pruneIn.days * TicksPerDay
                  /\ f \notin pruneIn.fails
                  => tree[f] = 0
            /\ \A f \in FileNames :
                  f \in pruneIn.fails \/ ~f.parsable => tree[f] = pruneIn.tree[f]
            /\ pruneOut = Cardinality(gone)
            /\ pruneOut = clean.count - Cardinality(pruneIn.fails \cap goneClean)

\* One removal failed, an undated file was met, and another old file was
\* still removed and counted.
C17_Witness ==
    /\ pruneIn.called
    /\ ~pruneIn.test_mode
    /\ pruneIn.fails # {}
    /\ \E f \in Present(pruneIn.tree) : f.ext = "{tar.gz,cfg}" /\ ~f.parsable
    /\ pruneOut = 1
    /\ Cardinality(Present(tree)) = 2

\* C18: once the change check of a run has raised, the run's change state is
\* "changed" wherever it is used afterwards: the commit is created, unless
\* the commit itself fails, and its message says "changed"; and the value
\* handed to the success notification is "changed", so that the notification
\* says so when it reports changes at all.
C18_FailOpen ==
    checkRaised =>
        /\ cmd = "run"
        /\ changed
        /\ \/ gitError = "commit" /\ failed = "commit"
           \/ /\ Has("commit")
              /\ commits # <<>>
              /\ commits[Len(commits)] = "changed"
        /\ SuccessMsg(TRUE, changed) = "success_changed"

\* A run whose change check raised has committed, pushed or not, and has
\* reported a changed configuration.
C18_Witness ==
    /\ cmd = "run"
    /\ pc = "returned"
    /\ checkRaised
    /\ Has("commit")
    /\ result = "true"
    /\ notified = "success_changed"

\* C19: whatever formats the configuration lists, a download that succeeds
\* under it hands over one artifact for each of them, no more; and when a
\* run has returned success, each artifact handed over is stored under the
\* name of its format, dated by the day of the store.
C19_EveryConfiguredFormatStored ==
    /\ [][\A fmts \in SUBSET Formats, a \in Artifacts :
              Download(fmts, "ok", a) => DOMAIN backup_files' = fmts]_vars
    /\ [](cmd = "run" /\ pc = "returned" /\ result = "true" /\ Has("store") =>
              \A fmt \in DOMAIN backup_files :
                  \E f \in Present(tree) :
                      /\ f.parsable
                      /\ f.ext = fmt
                      /\ f.date <= Today(now)
                      /\ tree[f] = backup_files[fmt].content)

\* A file of the last commit that the working tree no longer holds.
DeletedUncommitted(f) == head[f] # 0 /\ tree[f] = 0

\* C20: the retention pass of a run comes after the run's commit and push
\* and leaves the index and the history alone, and nothing is staged,
\* committed or pushed in the run after it; so a committed file that the
\* pass removes is, from then on, a deletion the last commit does not hold,
\* until a commit takes it, and a run that commits it says "changed".
C20_PruneAfterCommit ==
    /\ [][cmd = "run" /\ (Has("prune") \/ pc = "prune") =>
              /\ index' = index
              /\ head' = head
              /\ commits' = commits
              /\ Count("commit")' <= Count("commit")
              /\ Count("push")' <= Count("push")]_vars
    /\ [][\A f \in FileNames :
              DeletedUncommitted(f) =>
                  \/ DeletedUncommitted(f)'
                  \/ /\ cmd \in {"run", "cleanup"}
                     /\ Len(commits') = Len(commits) + 1
                     /\ head'[f] = 0
                     /\ cmd = "run" => commits'[Len(commits')] = "changed"]_vars

\* A run has committed and returned success, and a file of its commit is
\* gone from the working tree: its retention pass removed it.
C20_Witness ==
    /\ cmd = "run"
    /\ pc = "returned"
    /\ result = "true"
    /\ Has("commit")
    /\ Has("prune")
    /\ \E f \in FileNames : DeletedUncommitted(f)

\* C21: a retention pass removes a file only when its name carries a date
\* that parses and lies before the instant now - retention_days; and with
\* retention_days >= 1 it removes no file dated today, under any name, so
\* not the file that a store of today writes for any format.
C21_TodayNeverPruned ==
    pruneIn.called =>
        /\ \A f \in FileNames :
              pruneIn.tree[f] # 0 /\ tree[f] = 0 =>
                  /\ f.parsable
                  /\ f.date * TicksPerDay
                        < pruneIn.now - pruneIn.days * TicksPerDay
        /\ pruneIn.days >= 1 =>
              /\ \A f \in FileNames :
                    f.parsable /\ f.date = pruneIn.now \div TicksPerDay =>
                        tree[f] = pruneIn.tree[f]
              /\ \A fmt \in Formats :
                    tree[DestFile(pruneIn.now, fmt)]
                        = pruneIn.tree[DestFile(pruneIn.now, fmt)]

\* A pass with retention_days >= 1, later in the day than midnight, removed
\* an older file and kept a file dated today that its scan reached.
C21_Witness ==
    /\ pruneIn.called
    /\ ~pruneIn.test_mode
    /\ pruneIn.days >= 1
    /\ pruneIn.fails = {}
    /\ pruneIn.now % TicksPerDay # 0
    /\ pruneOut >= 1
    /\ \E f \in Present(tree) :
          /\ f.ext = "{tar.gz,cfg}"
          /\ f.parsable
          /\ f.date = pruneIn.now \div TicksPerDay

====
